---- MODULE Spec2Model ----
(***************************************************************************)
(* Model of the task-manager back end (src/backend/server.js): an Express  *)
(* application over an in-memory SQLite database with a users table and a  *)
(* tasks table, a JWT issuing login route and a handful of CRUD routes.    *)
(*                                                                         *)
(* One action per route handler.  A handler and the database / exec        *)
(* callback it registers are one atomic step: the callback is the only     *)
(* continuation of the handler and nothing else of the request runs in     *)
(* between.                                                                *)
(*                                                                         *)
(* Text that reaches SQL or the shell is a sequence of lexemes (a quote,   *)
(* a comment marker, a word, ...), so that the string interpolation of     *)
(* the handlers is modelled by what it does: the interpolated text is      *)
(* lexed and parsed again by the database, quotes included.                *)
(***************************************************************************)
EXTENDS Integers, Sequences, FiniteSets, TLC

(***************************************************************************)
(* Bounds of the model.                                                    *)
(***************************************************************************)
MaxTasks == 2        \* rows the tasks table may hold

(***************************************************************************)
(* Program constants.                                                      *)
(***************************************************************************)
TTL == 86400                             \* expiresIn: '24h', in seconds
DefaultSecret == "super-secret-key-12345"
SeedPassword == "password123"

(***************************************************************************)
(* bcryptjs.  A hash is a salted one-way image of the plaintext; the only  *)
(* thing the program does with one is compareSync.                         *)
(***************************************************************************)
hashSync(plain) == <<"$2a$10$", plain>>

compareSync(plain, hash) == hash = hashSync(plain)

hashedPassword == hashSync(SeedPassword)

(***************************************************************************)
(* Lexemes of the text a client can put into a request.                    *)
(***************************************************************************)
Q == "'"
COMMENT == "--"
PCT == "%"
OR_TRUE == " OR 1=1"
OR_DESC == " OR description LIKE "
\* a complete injected SELECT, closed by its own comment marker
UNION_ROW == " UNION SELECT 1,'admin','<bcrypt of evil>','x@x','admin' --"
SEMI == ";"

AttackerPassword == "evil"

\* the row the UNION_ROW lexeme adds to a five column result
InjectedRow ==
    [id |-> 1, username |-> "admin", password |-> hashSync(AttackerPassword),
     email |-> "x@x", role |-> "admin"]

(***************************************************************************)
(* The SQL the database sees.  ReadLiteral reads the string literal whose  *)
(* opening quote is s[i - 1]: a doubled quote is an escaped quote, a       *)
(* single one ends the literal, and the end of the text inside a literal   *)
(* is a syntax error.                                                      *)
(***************************************************************************)
RECURSIVE ReadLiteral(_, _, _)
ReadLiteral(s, i, acc) ==
    IF i > Len(s)
    THEN [ok |-> FALSE, lit |-> acc, next |-> i]
    ELSE IF s[i] = Q
         THEN IF i + 1 <= Len(s) /\ s[i + 1] = Q
              THEN ReadLiteral(s, i + 2, Append(acc, Q))
              ELSE [ok |-> TRUE, lit |-> acc, next |-> i + 1]
         ELSE ReadLiteral(s, i + 1, Append(acc, s[i]))

(***************************************************************************)
(* What follows the first literal of a WHERE clause.  st collects the      *)
(* disjuncts: always (OR 1=1), descs (OR description LIKE <literal>) and   *)
(* union (rows added by UNION SELECT).  A word or a quote right after a    *)
(* literal is a syntax error; the requests of the model put nothing else   *)
(* there.                                                                  *)
(***************************************************************************)
RECURSIVE ParseTail(_, _, _)
ParseTail(s, i, st) ==
    IF i > Len(s) THEN st
    ELSE IF s[i] = COMMENT THEN st
    ELSE IF s[i] = OR_TRUE THEN ParseTail(s, i + 1, [st EXCEPT !.always = TRUE])
    ELSE IF s[i] = UNION_ROW THEN [st EXCEPT !.union = TRUE]
    ELSE IF s[i] = OR_DESC /\ i + 1 <= Len(s) /\ s[i + 1] = Q
         THEN LET l == ReadLiteral(s, i + 2, <<>>)
              IN  IF l.ok
                  THEN ParseTail(s, l.next, [st EXCEPT !.descs = Append(@, l.lit)])
                  ELSE [st EXCEPT !.ok = FALSE]
    ELSE [st EXCEPT !.ok = FALSE]

\* the parse of:  <select ... where column op> ' text
ParseWhere(text) ==
    LET l == ReadLiteral(text, 1, <<>>)
        st0 == [ok |-> TRUE, lit |-> l.lit, always |-> FALSE,
                descs |-> <<>>, union |-> FALSE]
    IN  IF l.ok THEN ParseTail(text, l.next, st0)
        ELSE [st0 EXCEPT !.ok = FALSE]

\* SQL LIKE of a text against a pattern in which % matches any run
RECURSIVE Like(_, _)
Like(txt, pat) ==
    IF pat = <<>> THEN txt = <<>>
    ELSE IF Head(pat) = PCT
         THEN Like(txt, Tail(pat)) \/ (txt # <<>> /\ Like(Tail(txt), pat))
         ELSE txt # <<>> /\ Head(txt) = Head(pat) /\ Like(Tail(txt), Tail(pat))

(***************************************************************************)
(* Rows in rowid order.                                                    *)
(***************************************************************************)
RECURSIVE ById(_)
ById(rows) ==
    IF rows = {} THEN <<>>
    ELSE LET r == CHOOSE x \in rows : \A y \in rows : x.id <= y.id
         IN  <<r>> \o ById(rows \ {r})

VARIABLES
    running,    \* the node process is alive
    env,        \* process.env, read once at startup
    users,      \* rows of the users table
    tasks,      \* rows of the tasks table, in rowid order
    now,        \* wall clock, seconds
    held,       \* the token the client keeps (localStorage), <<>> if none
    request,    \* the last request received
    response,   \* the response sent for it
    sent,       \* how many responses the handler sent for it
    ran         \* the database, bcrypt or shell calls the handler made

vars == <<running, env, users, tasks, now, held, request, response, sent, ran>>

JWT_SECRET ==
    IF "JWT_SECRET" \in DOMAIN env THEN env.JWT_SECRET ELSE DefaultSecret

Environments == { [NODE_ENV |-> "development"],
                  [NODE_ENV |-> "development", JWT_SECRET |-> "key-from-env"] }

\* a seed whose second user has a role outside the enumeration
SeedUsersOddRole ==
    { [id |-> 1, username |-> "admin", password |-> hashedPassword,
       email |-> "admin@example.com", role |-> "admin"],
      [id |-> 2, username |-> "user1", password |-> hashedPassword,
       email |-> "user1@example.com", role |-> "guest"] }

SeedUsers ==
    { [id |-> 1, username |-> "admin", password |-> hashedPassword,
       email |-> "admin@example.com", role |-> "admin"],
      [id |-> 2, username |-> "user1", password |-> hashedPassword,
       email |-> "user1@example.com", role |-> "user"] }

NoRequest == [route |-> "none"]
NoResponse == [status |-> 0, body |-> <<>>]

Init ==
    /\ running = TRUE
    /\ env \in Environments
    /\ users = SeedUsers
    /\ tasks = <<>>
    /\ now = 0
    /\ held = <<>>
    /\ request = NoRequest
    /\ response = NoResponse
    /\ sent = 0
    /\ ran = <<>>

(***************************************************************************)
(* jsonwebtoken.  sign stamps the payload with iat = now and, for          *)
(* expiresIn: '24h', exp = iat + 86400, and signs it with the key.         *)
(***************************************************************************)
\* a token that lives one hour and is signed with the built-in key
signShortLived(payload, key, t) ==
    [id |-> payload.id, username |-> payload.username, role |-> payload.role,
     iat |-> t, exp |-> t + 3600, sig |-> DefaultSecret]

sign(payload, key, t) ==
    [id |-> payload.id, username |-> payload.username, role |-> payload.role,
     iat |-> t, exp |-> t + TTL, sig |-> key]

(***************************************************************************)
(* What a client can put into the Authorization header.  No handler reads  *)
(* it.                                                                     *)
(***************************************************************************)
ForgedToken ==
    [id |-> 1, username |-> "admin", role |-> "admin",
     iat |-> now, exp |-> now + TTL, sig |-> "attacker-key"]

AuthHeaders ==
    { [kind |-> "none"], [kind |-> "malformed"],
      [kind |-> "bearer", token |-> ForgedToken] }
    \cup (IF held = <<>> THEN {} ELSE { [kind |-> "bearer", token |-> held] })

(***************************************************************************)
(* POST /api/login                                                         *)
(***************************************************************************)
Usernames ==
    { <<"admin">>, <<"user1">>, <<"ghost">>,
      <<Q>>,                               \* '''       unterminated literal
      <<Q, Q>>,                            \* ''''      the one-quote string
      <<"admin", Q, COMMENT>>,             \* 'admin' --'
      <<"ghost", Q, OR_TRUE, COMMENT>>,    \* 'ghost' OR 1=1 --'
      <<Q, UNION_ROW>> }                   \* '' UNION SELECT ... --'

Passwords == { SeedPassword, "wrongpassword", AttackerPassword }

\* SELECT * FROM users WHERE username = '${username}'
LoginQuery(username) == username \o <<Q>>

\* the rows the login query selects
LoginRows(p) ==
    { u \in users : p.always \/ <<u.username>> = p.lit }
    \cup (IF p.union THEN {InjectedRow} ELSE {})

\* db.get hands the callback the first row: the least rowid, and with
\* UNION whichever of two rows of equal id the sort of the compound
\* select puts first (it depends on the salt in the hash column)
FirstRows(rows) == { r \in rows : \A o \in rows : r.id <= o.id }

\* a login that tells a wrong password apart from an unknown user
LoginResponseTelling(user, password) ==
    IF compareSync(password, user.password)
    THEN [status |-> 200,
          body |-> [token |-> sign([id |-> user.id, username |-> user.username,
                                    role |-> user.role], JWT_SECRET, now),
                    user |-> [id |-> user.id, username |-> user.username,
                              email |-> user.email, role |-> user.role,
                              password |-> user.password]]]
    ELSE [status |-> 403, body |-> [error |-> "Wrong password"]]

\* a login that issues every token with the default role of the schema
LoginResponseDefaultRole(user, password) ==
    IF compareSync(password, user.password)
    THEN [status |-> 200,
          body |-> [token |-> sign([id |-> user.id, username |-> user.username,
                                    role |-> "user"], JWT_SECRET, now),
                    user |-> [id |-> user.id, username |-> user.username,
                              email |-> user.email, role |-> user.role,
                              password |-> user.password]]]
    ELSE [status |-> 401, body |-> [error |-> "Invalid credentials"]]

LoginResponse(user, password) ==
    IF compareSync(password, user.password)
    THEN [status |-> 200,
          body |-> [token |-> sign([id |-> user.id, username |-> user.username,
                                    role |-> user.role], JWT_SECRET, now),
                    user |-> [id |-> user.id, username |-> user.username,
                              email |-> user.email, role |-> user.role,
                              password |-> user.password]]]
    ELSE [status |-> 401, body |-> [error |-> "Invalid credentials"]]

\* req.body of a login; the last two carry no password field
LoginBodies ==
    { [username |-> u, password |-> p] : u \in Usernames, p \in Passwords }
    \cup { [username |-> u] : u \in { <<"admin">>, <<"ghost">> } }

\* a login that leaves a session row behind in the database
LoginKeepingSession(body) ==
    LET p == ParseWhere(LoginQuery(body.username))
        rows == LoginRows(p)
        found == p.ok /\ rows # {} /\ "password" \in DOMAIN body
    IN  /\ running
        /\ request' = [route |-> "POST /api/login", body |-> body]
        /\ ran' = <<"db.get", "users">>
        /\ IF found
           THEN \E user \in FirstRows(rows) :
                    response' = LoginResponse(user, body.password)
           ELSE response' = [status |-> 401,
                             body |-> [error |-> "Invalid credentials"]]
        /\ tasks' = IF response'.status = 200 /\ Len(tasks) < MaxTasks
                    THEN Append(tasks,
                                [id |-> Len(tasks) + 1,
                                 user_id |-> response'.body.user.id,
                                 title |-> "session", description |-> "login",
                                 completed |-> 0])
                    ELSE tasks
        /\ sent' = 1
        /\ held' = IF response'.status = 200 THEN response'.body.token ELSE held
        /\ UNCHANGED <<running, env, users, now>>

\* bcrypt.compareSync throws "Illegal arguments" when the password is not a
\* string.  The throw happens in the callback of db.get, outside the
\* router: no response is sent and the uncaught exception ends the process.
Login(body) ==
    LET p == ParseWhere(LoginQuery(body.username))
        rows == LoginRows(p)
        compares == p.ok /\ rows # {}
        throws == compares /\ "password" \notin DOMAIN body
    IN  /\ running
        /\ request' = [route |-> "POST /api/login", body |-> body]
        /\ ran' = <<"db.get", "users">>
                      \o (IF compares THEN <<"bcrypt.compareSync">> ELSE <<>>)
        /\ IF ~p.ok
           THEN response' = [status |-> 500, body |-> [error |-> "Database error"]]
           ELSE IF rows = {}
           THEN response' = [status |-> 401,
                             body |-> [error |-> "Invalid credentials"]]
           ELSE IF throws
           THEN response' = NoResponse
           ELSE \E user \in FirstRows(rows) :
                    response' = LoginResponse(user, body.password)
        /\ sent' = IF throws THEN 0 ELSE 1
        /\ running' = ~throws
        \* the front end keeps the token of a successful login
        /\ held' = IF response'.status = 200 THEN response'.body.token ELSE held
        /\ UNCHANGED <<env, users, tasks, now>>

(***************************************************************************)
(* GET /api/users                                                          *)
(***************************************************************************)
\* SELECT * instead of the four columns
AllColumns(u) == u

PublicColumns(u) ==
    [id |-> u.id, username |-> u.username, email |-> u.email, role |-> u.role]

GetUsers(auth) ==
    /\ running
    /\ request' = [route |-> "GET /api/users", auth |-> auth]
    /\ ran' = <<"db.all", "users">>
    /\ response' = [status |-> 200,
                    body |-> ById({ PublicColumns(u) : u \in users })]
    /\ sent' = 1
    /\ UNCHANGED <<running, env, users, tasks, now, held>>

(***************************************************************************)
(* GET /api/tasks/search                                                   *)
(***************************************************************************)
SearchQueries ==
    { <<>>,                    \* '%%'          every task
      <<"fix">>, <<"milk">>,
      <<Q, "fix">>,            \* '%'fix%' ...  syntax error
      <<Q, COMMENT>>,          \* '%' --%' ...  every task
      <<Q, UNION_ROW>> }       \* five columns joined to six

\* SELECT * FROM tasks WHERE title LIKE '%${query}%'
\*                        OR description LIKE '%${query}%'
SearchQuery(query) ==
    <<PCT>> \o query \o <<PCT, Q, OR_DESC, Q, PCT>> \o query \o <<PCT, Q>>

RECURSIVE AnyLike(_, _)
AnyLike(txt, pats) ==
    pats # <<>> /\ (Like(txt, Head(pats)) \/ AnyLike(txt, Tail(pats)))

SearchRows(p) ==
    SelectSeq(tasks, LAMBDA t : \/ p.always
                                \/ Like(<<t.title>>, p.lit)
                                \/ AnyLike(<<t.description>>, p.descs))

SearchTasks(query, auth) ==
    LET p == ParseWhere(SearchQuery(query))
    IN  /\ running
        /\ request' = [route |-> "GET /api/tasks/search", auth |-> auth,
                       query |-> query]
        /\ ran' = <<"db.all", "tasks">>
        /\ response' =
              IF ~p.ok
              THEN [status |-> 500,
                    body |-> [error |-> "SQLITE_ERROR: syntax error"]]
              ELSE IF p.union
              THEN [status |-> 500,
                    body |-> [error |-> "SQLITE_ERROR: SELECTs to the left and right of UNION do not have the same number of result columns"]]
              ELSE [status |-> 200, body |-> SearchRows(p)]
        /\ sent' = 1
        /\ UNCHANGED <<running, env, users, tasks, now, held>>

(***************************************************************************)
(* GET /api/tasks/:id                                                      *)
(***************************************************************************)
TaskIds == 1 .. MaxTasks

GetTask(id, auth) ==
    LET found == SelectSeq(tasks, LAMBDA t : t.id = id)
    IN  /\ running
        /\ request' = [route |-> "GET /api/tasks/:id", auth |-> auth, id |-> id]
        /\ ran' = <<"db.get", "tasks">>
        /\ response' =
              IF found = <<>>
              THEN [status |-> 404, body |-> [error |-> "Task not found"]]
              ELSE [status |-> 200, body |-> found[1]]
        /\ sent' = 1
        /\ UNCHANGED <<running, env, users, tasks, now, held>>

(***************************************************************************)
(* POST /api/tasks                                                         *)
(***************************************************************************)
TaskBodies ==
    { [user_id |-> 1, title |-> "fix", description |-> "bug"],
      [user_id |-> 1, title |-> "fix", description |-> "bug", completed |-> 0],
      [user_id |-> 2, title |-> "buy", description |-> "milk", completed |-> 1] }

\* completed || 0
CompletedOrZero(body) ==
    IF "completed" \in DOMAIN body /\ body.completed # 0
    THEN body.completed ELSE 0

\* The created_at column is filled in by the database (DEFAULT
\* CURRENT_TIMESTAMP); no statement of the program sets, compares or orders
\* by it, and the rows of the model do not carry it.
\* AUTOINCREMENT: one more than the largest rowid ever used; no statement
\* of the program deletes a task
lastID == Len(tasks) + 1

\* a create that takes the owner from the bearer token when there is one
CreateTaskOwnedByBearer(body, auth) ==
    /\ running
    /\ Len(tasks) < MaxTasks
    /\ request' = [route |-> "POST /api/tasks", auth |-> auth, body |-> body]
    /\ ran' = <<"db.run", "tasks">>
    /\ tasks' = Append(tasks,
                       [id |-> Len(tasks) + 1,
                        user_id |-> IF auth.kind = "bearer"
                                    THEN auth.token.id ELSE body.user_id,
                        title |-> body.title, description |-> body.description,
                        completed |-> IF "completed" \in DOMAIN body
                                      THEN body.completed ELSE 0])
    /\ response' = [status |-> 200,
                    body |-> [id |-> Len(tasks) + 1, message |-> "Task created"]]
    /\ sent' = 1
    /\ UNCHANGED <<running, env, users, now, held>>

CreateTask(body, auth) ==
    /\ Len(tasks) < MaxTasks
    /\ running
    /\ request' = [route |-> "POST /api/tasks", auth |-> auth, body |-> body]
    /\ ran' = <<"db.run", "tasks">>
    /\ tasks' = Append(tasks,
                       [id |-> lastID, user_id |-> body.user_id,
                        title |-> body.title, description |-> body.description,
                        completed |-> CompletedOrZero(body)])
    /\ response' = [status |-> 200,
                    body |-> [id |-> lastID, message |-> "Task created"]]
    /\ sent' = 1
    /\ UNCHANGED <<running, env, users, now, held>>

(***************************************************************************)
(* POST /api/export.  The shell runs  echo "Export complete" > ${filename} *)
(* : a semicolon in the file name ends the echo and starts another         *)
(* command, and exec reports an error when the last command fails.         *)
(***************************************************************************)
Filenames ==
    { <<"out.txt">>,
      <<"/nodir/out.txt">>,                 \* cannot be created
      <<"out.txt", SEMI, "touch pwned">> }

RECURSIVE SplitCommands(_, _)
SplitCommands(s, cur) ==
    IF s = <<>> THEN <<cur>>
    ELSE IF Head(s) = SEMI THEN <<cur>> \o SplitCommands(Tail(s), <<>>)
    ELSE SplitCommands(Tail(s), Append(cur, Head(s)))

ExportCommands(filename) == SplitCommands(<<"echo >">> \o filename, <<>>)

CommandFails(cmd) == cmd = <<"echo >", "/nodir/out.txt">>

Export(filename, auth) ==
    LET cmds == ExportCommands(filename)
    IN  /\ running
        /\ request' = [route |-> "POST /api/export", auth |-> auth,
                       body |-> [filename |-> filename]]
        /\ ran' = <<"exec">> \o cmds
        /\ response' =
              IF CommandFails(cmds[Len(cmds)])
              THEN [status |-> 500,
                    body |-> [error |-> "Command failed: /bin/sh: can't create /nodir/out.txt: nonexistent directory"]]
              ELSE [status |-> 200,
                    body |-> [message |-> "Export completed",
                              filename |-> filename]]
        /\ sent' = 1
        /\ UNCHANGED <<running, env, users, tasks, now, held>>

(***************************************************************************)
(* POST /api/upload-xml                                                    *)
(***************************************************************************)
UploadXml ==
    /\ running
    /\ request' = [route |-> "POST /api/upload-xml"]
    /\ ran' = <<>>
    /\ response' = [status |-> 200,
                    body |-> [message |-> "XML processing endpoint (vulnerable to XXE)"]]
    /\ sent' = 1
    /\ UNCHANGED <<running, env, users, tasks, now, held>>

(***************************************************************************)
(* GET /api/admin/delete-user/:id                                          *)
(***************************************************************************)
UserIds == { 1, 2 }

\* a delete that also removes the tasks of the user (ON DELETE CASCADE)
DeleteUserCascading(id, auth) ==
    /\ running
    /\ request' = [route |-> "GET /api/admin/delete-user/:id", auth |-> auth,
                   id |-> id]
    /\ ran' = <<"db.run", "users">>
    /\ users' = { u \in users : u.id # id }
    /\ tasks' = SelectSeq(tasks, LAMBDA t : t.user_id # id)
    /\ response' = [status |-> 200, body |-> [message |-> "User deleted"]]
    /\ sent' = 1
    /\ UNCHANGED <<running, env, now, held>>

\* DELETE FROM users without the WHERE clause
DeleteUserAll(id, auth) ==
    /\ running
    /\ request' = [route |-> "GET /api/admin/delete-user/:id", auth |-> auth,
                   id |-> id]
    /\ ran' = <<"db.run", "users">>
    /\ users' = {}
    /\ response' = [status |-> 200, body |-> [message |-> "User deleted"]]
    /\ sent' = 1
    /\ UNCHANGED <<running, env, tasks, now, held>>

DeleteUser(id, auth) ==
    /\ running
    /\ request' = [route |-> "GET /api/admin/delete-user/:id", auth |-> auth,
                   id |-> id]
    /\ ran' = <<"db.run", "users">>
    /\ users' = { u \in users : u.id # id }
    /\ response' = [status |-> 200, body |-> [message |-> "User deleted"]]
    /\ sent' = 1
    /\ UNCHANGED <<running, env, tasks, now, held>>

(***************************************************************************)
(* GET /health                                                             *)
(***************************************************************************)
toISOString(t) == <<"ISO-8601", t>>

\* a health check that probes the users table
HealthProbingDb ==
    /\ running
    /\ request' = [route |-> "GET /health"]
    /\ ran' = <<"db.get", "users">>
    /\ response' = IF users = {}
                   THEN [status |-> 503, body |-> [status |-> "degraded"]]
                   ELSE [status |-> 200, body |-> [status |-> "ok"]]
    /\ sent' = 1
    /\ UNCHANGED <<running, env, users, tasks, now, held>>

Health ==
    /\ running
    /\ request' = [route |-> "GET /health"]
    /\ ran' = <<>>
    /\ response' = [status |-> 200,
                    body |-> [status |-> "ok", timestamp |-> toISOString(now)]]
    /\ sent' = 1
    /\ UNCHANGED <<running, env, users, tasks, now, held>>

(***************************************************************************)
(* The error middleware.  bodyParser.json() passes the error of a body     *)
(* that is not JSON to next(), and no handler runs.                        *)
(***************************************************************************)
PostRoutes ==
    { "POST /api/login", "POST /api/tasks", "POST /api/export",
      "POST /api/upload-xml" }

ErrorMiddleware(route) ==
    /\ running
    /\ request' = [route |-> route, malformedBody |-> TRUE]
    /\ ran' = <<>>
    /\ response' = [status |-> 500,
                    body |-> [error |-> "Unexpected token in JSON",
                              stack |-> "SyntaxError: Unexpected token in JSON at JSON.parse (<anonymous>) at parse (node_modules/body-parser/lib/types/json.js)"]]
    /\ sent' = 1
    /\ UNCHANGED <<running, env, users, tasks, now, held>>

(***************************************************************************)
(* Time passes.                                                            *)
(***************************************************************************)
Instants == { TTL - 1, TTL + 1 }     \* one second before and after 24h

Tick(t) ==
    /\ t > now
    /\ now' = t
    /\ UNCHANGED <<running, env, users, tasks, held, request, response, sent, ran>>

Next ==
    \/ \E b \in LoginBodies : Login(b)
    \/ \E a \in AuthHeaders : GetUsers(a)
    \/ \E q \in SearchQueries, a \in AuthHeaders : SearchTasks(q, a)
    \/ \E i \in TaskIds, a \in AuthHeaders : GetTask(i, a)
    \/ \E b \in TaskBodies, a \in AuthHeaders : CreateTask(b, a)
    \/ \E f \in Filenames, a \in AuthHeaders : Export(f, a)
    \/ UploadXml
    \/ \E i \in UserIds, a \in AuthHeaders : DeleteUser(i, a)
    \/ Health
    \/ \E r \in PostRoutes : ErrorMiddleware(r)
    \/ \E t \in Instants : Tick(t)

Spec == Init /\ [][Next]_vars

(***************************************************************************)
(* The same server started with NODE_ENV=production, with and without a    *)
(* JWT_SECRET in the environment.  Startup reads NODE_ENV only to print    *)
(* it; app.listen is unconditional.                                        *)
(***************************************************************************)
ProductionEnvironments ==
    { [NODE_ENV |-> "production"],
      [NODE_ENV |-> "production", JWT_SECRET |-> "key-from-env"] }

InitProduction ==
    /\ running = TRUE
    /\ env \in ProductionEnvironments
    /\ users = SeedUsers
    /\ tasks = <<>>
    /\ now = 0
    /\ held = <<>>
    /\ request = NoRequest
    /\ response = NoResponse
    /\ sent = 0
    /\ ran = <<>>

SpecProduction == InitProduction /\ [][Next]_vars

(***************************************************************************)
(* Vocabulary of the properties.                                           *)
(***************************************************************************)
ProtectedRoutes ==
    { "GET /api/users", "GET /api/tasks/:id", "GET /api/tasks/search",
      "POST /api/tasks", "POST /api/export", "GET /api/admin/delete-user/:id" }

\* the last request reached the router of a protected route
Protected(req) == req.route \in ProtectedRoutes /\ "auth" \in DOMAIN req

\* the last request is a login whose body was parsed and holds a password
IsLogin(req) ==
    /\ req.route = "POST /api/login"
    /\ "body" \in DOMAIN req
    /\ "password" \in DOMAIN req.body

Bearer(req) == Protected(req) /\ req.auth.kind = "bearer"

WellSigned(token) == token.sig = JWT_SECRET

\* jwt.verify at time t: the signature validates and exp is in the future
ValidAt(token, t) == WellSigned(token) /\ t < token.exp

InvalidCredentials == [status |-> 401, body |-> [error |-> "Invalid credentials"]]

\* a user name without SQL syntax in it
PlainName(name) == Len(name) = 1 /\ name[1] \in { "admin", "user1", "ghost" }

Stored(name) == { u \in users : <<u.username>> = name }

(***************************************************************************)
(* C1: a request to a protected route that carries no Authorization        *)
(* header is answered with 401, and the handler's database or shell        *)
(* action does not run.                                                    *)
(***************************************************************************)
C1_NoHeaderNoHandler ==
    (Protected(request) /\ request.auth.kind = "none")
        => (response.status = 401 /\ ran = <<>>)

(***************************************************************************)
(* C2: no response body holds a password hash field; the user record of a  *)
(* successful login is id, username, email, role and nothing else.         *)
(***************************************************************************)
C2_NoPasswordField ==
    /\ (IsLogin(request) /\ response.status = 200)
           => DOMAIN response.body.user = { "id", "username", "email", "role" }
    /\ (request.route = "GET /api/users" /\ response.status = 200)
           => \A i \in 1 .. Len(response.body) :
                  "password" \notin DOMAIN response.body[i]

(***************************************************************************)
(* C3: whatever the submitted user name, a token whose subject id is the   *)
(* id of a stored user is issued only when the submitted password          *)
(* verifies against the hash stored for that user.                         *)
(***************************************************************************)
C3_TokenOnlyForVerifiedUser ==
    (IsLogin(request) /\ response.status = 200)
        => \A u \in users :
               u.id = response.body.token.id
                   => compareSync(request.body.password, u.password)

C5_LoginSucceeds ==
    IsLogin(request) =>
        \A u \in Stored(request.body.username) :
            (PlainName(request.body.username)
               /\ compareSync(request.body.password, u.password))
                => /\ response.status = 200
                   /\ response.body.token.id = u.id
                   /\ response.body.token.role = u.role

C5_AdminLoggedIn ==
    /\ IsLogin(request)
    /\ request.body = [username |-> <<"admin">>, password |-> "password123"]
    /\ Stored(<<"admin">>) # {}
    /\ response.status = 200
    /\ response.body.token.role = "admin"

(***************************************************************************)
(* C6: a task is returned to the bearer of a valid, unexpired token only   *)
(* if the token's user id is the task's user_id or its role is admin.      *)
(***************************************************************************)
C6_OwnerOrAdminOnly ==
    (/\ Bearer(request)
     /\ request.route = "GET /api/tasks/:id"
     /\ ValidAt(request.auth.token, now)
     /\ response.status = 200)
        => \/ request.auth.token.id = response.body.user_id
           \/ request.auth.token.role = "admin"

(***************************************************************************)
(* C7: on a protected route a missing, malformed or badly signed token     *)
(* gets 401, and a valid token of a non-admin who asks for another user's  *)
(* task gets 403.                                                          *)
(***************************************************************************)
C7_StatusCodesNotSwapped ==
    Protected(request) =>
        /\ (\/ request.auth.kind \in { "none", "malformed" }
            \/ (request.auth.kind = "bearer" /\ ~WellSigned(request.auth.token)))
               => response.status = 401
        /\ (/\ request.auth.kind = "bearer"
            /\ request.route = "GET /api/tasks/:id"
            /\ ValidAt(request.auth.token, now)
            /\ request.auth.token.role # "admin"
            /\ \E i \in 1 .. Len(tasks) :
                   /\ tasks[i].id = request.id
                   /\ tasks[i].user_id # request.auth.token.id)
               => response.status = 403

(***************************************************************************)
(* C8: every request to a protected route decides afresh: a well signed    *)
(* token presented at or after its expiry time gets 401, and one           *)
(* presented before it is not turned away with 401.                        *)
(***************************************************************************)
C8_ExpiryEnforced ==
    [][ (now' = now /\ Bearer(request') /\ WellSigned(request'.auth.token))
          => (response'.status = 401 <=> now >= request'.auth.token.exp) ]_vars

(***************************************************************************)
(* C9: the token of a successful login is signed with the process-wide     *)
(* key and carries the user's id and role, an issue time and an expiry     *)
(* time 24 hours after the issue time.                                     *)
(***************************************************************************)
C9_TokenContents ==
    (IsLogin(request) /\ response.status = 200) =>
        LET token == response.body.token
        IN  /\ { "id", "role", "iat", "exp" } \subseteq DOMAIN token
            /\ token.sig = JWT_SECRET
            /\ token.id = response.body.user.id
            /\ token.role = response.body.user.role
            /\ token.iat <= now
            /\ token.exp = token.iat + 24 * 60 * 60

C9_TokenIssuedLater ==
    /\ IsLogin(request)
    /\ response.status = 200
    /\ response.body.token.iat > 0
    /\ "JWT_SECRET" \in DOMAIN env

(***************************************************************************)
(* C10: no response holds a stack trace or the text of an internal error:  *)
(* a failure is reported with a generic message.                           *)
(***************************************************************************)
GenericMessages == { "Database error", "Internal server error" }

C10_OpaqueErrors ==
    response.status = 500
        => /\ "stack" \notin DOMAIN response.body
           /\ response.body.error \in GenericMessages

(***************************************************************************)
(* C11: a caller without a well signed token learns nothing about the      *)
(* existence of a task: GET /api/tasks/:id answers such a caller neither   *)
(* with the task nor with 404.                                             *)
(***************************************************************************)
C11_NotFoundOnlyAfterAuthorization ==
    (/\ Protected(request)
     /\ request.route = "GET /api/tasks/:id"
     /\ ~(request.auth.kind = "bearer" /\ WellSigned(request.auth.token)))
        => response.status \notin { 200, 404 }

(***************************************************************************)
(* C12: a login that is turned away with 401 has run a password hash       *)
(* comparison first, also when the user name is not stored.                *)
(***************************************************************************)
C12_DummyComparison ==
    (/\ request.route = "POST /api/login"
     /\ "body" \in DOMAIN request
     /\ response.status = 401)
        => \E i \in 1 .. Len(ran) : ran[i] = "bcrypt.compareSync"

(***************************************************************************)
(* C13: started in the production profile without JWT_SECRET the server    *)
(* never serves a request, and no token is ever signed with the built-in   *)
(* key.                                                                    *)
(***************************************************************************)
C13_NoFallbackInProduction ==
    (env.NODE_ENV = "production" /\ "JWT_SECRET" \notin DOMAIN env)
        => /\ request = NoRequest
           /\ held = <<>>

(***************************************************************************)
(* C14 as stated: no request changes the set of user records.              *)
(***************************************************************************)
C14_UsersReadOnly == users = SeedUsers

(***************************************************************************)
(* C14 amended: no user record is ever added or altered, and the only      *)
(* step that changes the users table is GET /api/admin/delete-user/:id,    *)
(* which removes the record with the id of the request.                    *)
(***************************************************************************)
C14_OnlyDeleteUserRemoves ==
    /\ [](users \subseteq SeedUsers)
    /\ [][ users' # users
             => /\ request'.route = "GET /api/admin/delete-user/:id"
                /\ users' = { u \in users : u.id # request'.id } ]_vars

C14_UserRemoved ==
    /\ request.route = "GET /api/admin/delete-user/:id"
    /\ request.id = 2
    /\ Cardinality(users) = 1
    /\ \A u \in users : u.id = 1

(***************************************************************************)
(* C15: a login request, whatever its outcome, leaves the users table and  *)
(* the tasks table as they were; the server keeps no session.              *)
(***************************************************************************)
C15_LoginPersistsNothing ==
    [][ request'.route = "POST /api/login"
          => (users' = users /\ tasks' = tasks /\ env' = env) ]_vars

C15_LoginOverFilledTables ==
    /\ IsLogin(request)
    /\ response.status = 200
    /\ Len(tasks) > 0
    /\ Cardinality(users) = 1

(***************************************************************************)
(* C16: in every state of the users table no two records share a user      *)
(* name and every role is admin or user.                                   *)
(***************************************************************************)
C16_UniqueNamesKnownRoles ==
    /\ \A u, v \in users : u.username = v.username => u = v
    /\ \A u \in users : u.role \in { "admin", "user" }

C16_AfterInjectedRow ==
    /\ IsLogin(request)
    /\ request.body.username = <<Q, UNION_ROW>>
    /\ response.status = 200
    /\ Cardinality(users) = 2

C18_HealthAlwaysOk ==
    /\ [](running => ENABLED Health)
    /\ [][ request'.route = "GET /health"
             => /\ response'.status = 200
                /\ response'.body.status = "ok"
                /\ users' = users
                /\ tasks' = tasks ]_vars

C18_HealthOverEmptyUsers ==
    /\ request.route = "GET /health"
    /\ users = {}
    /\ Len(tasks) > 0
    /\ response.status = 200

(***************************************************************************)
(* C19: every request a handler took up is answered exactly once.          *)
(***************************************************************************)
C19_ExactlyOneResponse == request # NoRequest => sent = 1

(***************************************************************************)
(* C20: task ids are pairwise distinct, a row never changes once it is     *)
(* stored, and the id a create returns is new; the stored row holds the    *)
(* title, description and user_id of the request body and completed, or 0  *)
(* when that is absent or 0; GET /api/tasks/:id returns the stored row.    *)
(***************************************************************************)
TaskWithId(id) == { i \in 1 .. Len(tasks) : tasks[i].id = id }

C20_StoredAsSupplied ==
    /\ \A i, j \in 1 .. Len(tasks) : tasks[i].id = tasks[j].id => i = j
    /\ (/\ request.route = "POST /api/tasks"
        /\ response.status = 200)
           => \E i \in TaskWithId(response.body.id) :
                  /\ tasks[i].user_id = request.body.user_id
                  /\ tasks[i].title = request.body.title
                  /\ tasks[i].description = request.body.description
                  /\ tasks[i].completed =
                        IF "completed" \in DOMAIN request.body
                        THEN request.body.completed ELSE 0
    /\ (/\ request.route = "GET /api/tasks/:id"
        /\ TaskWithId(request.id) # {})
           => /\ response.status = 200
              /\ \A i \in TaskWithId(request.id) : response.body = tasks[i]

C20_TaskIdentity ==
    /\ []C20_StoredAsSupplied
    /\ [][ /\ \A i \in 1 .. Len(tasks) :
                 i <= Len(tasks') /\ tasks'[i] = tasks[i]
           /\ tasks' # tasks
                 => /\ Len(tasks') = Len(tasks) + 1
                    /\ response'.body.id = tasks'[Len(tasks')].id
                    /\ TaskWithId(response'.body.id) = {} ]_vars

C20_SecondTaskRead ==
    /\ request.route = "GET /api/tasks/:id"
    /\ request.id = 2
    /\ Len(tasks) = 2
    /\ response.status = 200
    /\ response.body.completed = 0
    /\ tasks[1].completed = 1

(***************************************************************************)
(* C21: GET /api/admin/delete-user/:id removes the user with that id and   *)
(* nothing else: the other user records and the tasks table, the tasks of  *)
(* the deleted user included, stay as they were.  It answers 200 'User     *)
(* deleted' whether or not the user existed, and repeating it changes      *)
(* nothing.  Afterwards a login with the deleted user's name and right     *)
(* password gets 401 and GET /api/users does not list the user.            *)
(***************************************************************************)
Deleted == { s \in SeedUsers : \A u \in users : u.id # s.id }

C21_AfterDelete ==
    /\ request.route = "GET /api/admin/delete-user/:id"
           => /\ response = [status |-> 200,
                             body |-> [message |-> "User deleted"]]
              /\ \A u \in users : u.id # request.id
    /\ IsLogin(request)
           => \A s \in Deleted :
                  (/\ request.body.username = <<s.username>>
                   /\ compareSync(request.body.password, s.password))
                      => response.status = 401
    /\ (request.route = "GET /api/users" /\ response.status = 200)
           => \A s \in Deleted :
                  \A i \in 1 .. Len(response.body) :
                      /\ response.body[i].id # s.id
                      /\ response.body[i].username # s.username

C21_DeleteUserFrame ==
    /\ []C21_AfterDelete
    /\ [][ request'.route = "GET /api/admin/delete-user/:id"
             => /\ users' = { u \in users : u.id # request'.id }
                /\ tasks' = tasks
                /\ (request = request' => users' = users) ]_vars

C21_DeletedUserLocked ==
    /\ IsLogin(request)
    /\ request.body = [username |-> <<"user1">>, password |-> SeedPassword]
    /\ response.status = 401
    /\ \A u \in users : u.id # 2
    /\ \E i \in 1 .. Len(tasks) : tasks[i].user_id = 2

====
